---- MODULE Spec2Model ----
(***************************************************************************)
(* A model of the proquint crate (src/src/lib.rs): the alphabet tables,    *)
(* the label codec (quint_to_ascii, append_label, to_ints) and the         *)
(* identifier type Proquint with its constructors, append, from_str,       *)
(* Display and the AsProquint conversions.                                 *)
(*                                                                         *)
(* A byte of the crate's Vec<u8> is a one-character string here, a u16 is  *)
(* a natural number below 65536, and a u32 / u64 is a sequence of 32 / 64  *)
(* bits, most significant first (TLC's integers are 32-bit signed).        *)
(***************************************************************************)
EXTENDS Naturals, Sequences, FiniteSets

(***************************************************************************)
(* Bounds of the model.                                                    *)
(***************************************************************************)
\* The longest identifier, in labels, the caller builds from values.
MaxLabels == 4
\* The longest text the caller hands to from_str.
MaxTextLen == 8

\* The 16-bit values the caller encodes: 0, 1 and 0xffff.
Vals == {0, 1, 65535}
\* The halves of the IPv4 addresses the caller encodes: 0.0, 0.1 and 255.255.
OctetPairs == {<<0, 0>>, <<0, 1>>, <<255, 255>>}
\* The characters of the texts the caller types: a consonant, a vowel and
\* the separator.  "b" is no vowel and "a" is no consonant.
Chars == {"b", "a", "-"}
\* The longest text over the wider alphabet WideChars, which adds a
\* character of neither table and the last consonant.
MaxWideLen == 5
WideChars == {"b", "a", "-", "X", "z"}
\* The longer texts the caller types are made of at most MaxSegs of these
\* segments, joined by the separator or by nothing: two labels, a label
\* with a consonant for a vowel, a label of foreign characters, a label
\* with a foreign last character, a short and a long segment, and the
\* empty segment of a leading, trailing or doubled separator.
MaxSegs == 3
SampleSegs ==
    {<<"b", "a", "b", "a", "b">>, <<"z", "u", "z", "u", "z">>,
     <<"b", "b", "b", "b", "b">>, <<"X", "X", "X", "X", "X">>,
     <<"b", "a", "b", "a", "X">>, <<"b", "a", "b", "a">>,
     <<"b", "a", "b", "a", "b", "b">>, <<>>}

(***************************************************************************)
(* The alphabet tables.                                                    *)
(***************************************************************************)
UINT2CONSONANT ==
    <<"b", "d", "f", "g", "h", "j", "k", "l", "m", "n", "p", "r", "s", "t", "v", "z">>

UINT2VOWEL == <<"a", "i", "o", "u">>

\* slice.contains(&c)
contains(table, c) == \E i \in 1..Len(table) : table[i] = c

\* A faulty position: the index counted from 1.
position_from_one(table, c) == CHOOSE i \in 1..Len(table) : table[i] = c

\* slice.iter().position(|&x| x == c).unwrap(), 0-based
position(table, c) == (CHOOSE i \in 1..Len(table) : table[i] = c) - 1

(***************************************************************************)
(* Machine arithmetic.                                                     *)
(***************************************************************************)
\* The number of u16 values: a u16 is in 0 .. U16 - 1.
U16 == 65536

RECURSIVE BitAnd(_, _)
BitAnd(a, b) ==
    IF a = 0 \/ b = 0 THEN 0
    ELSE (a % 2) * (b % 2) + 2 * BitAnd(a \div 2, b \div 2)

RECURSIVE BitOr(_, _)
BitOr(a, b) ==
    IF a = 0 THEN b
    ELSE IF b = 0 THEN a
    ELSE (IF a % 2 = 1 \/ b % 2 = 1 THEN 1 ELSE 0) + 2 * BitOr(a \div 2, b \div 2)

Shr(a, n) == a \div (2 ^ n)

\* << on a u16: the bits shifted out are dropped.
Shl16(a, n) == (a * (2 ^ n)) % U16

\* A wide integer is a sequence of bits, most significant first.
RECURSIVE BitsVal(_)
BitsVal(bits) ==
    IF bits = <<>> THEN 0
    ELSE 2 * BitsVal(SubSeq(bits, 1, Len(bits) - 1)) + bits[Len(bits)]

\* The bits of a hexadecimal literal, given by its digits.
RECURSIVE Hex(_)
Hex(digits) ==
    IF digits = <<>> THEN <<>>
    ELSE LET d == Head(digits)
         IN  <<(d \div 8) % 2, (d \div 4) % 2, (d \div 2) % 2, d % 2>> \o Hex(Tail(digits))

AndBits(a, b) == [i \in 1..Len(a) |-> a[i] * b[i]]

ShrBits(a, n) == [i \in 1..Len(a) |-> IF i <= n THEN 0 ELSE a[i - n]]

\* `as u16`: the low 16 bits.
AsU16(a) == BitsVal(SubSeq(a, Len(a) - 15, Len(a)))

(***************************************************************************)
(* quint_to_ascii: one 16-bit value to 5 characters, pushed onto out.      *)
(***************************************************************************)
\* A faulty quint_to_ascii: the second vowel is shifted by 2 instead of 4.
quint_to_ascii_bad_shift(u, out) ==
    LET con0 == Shr(BitAnd(61440, u), 12)
        vo1  == Shr(BitAnd(3072, u), 10)
        con2 == Shr(BitAnd(960, u), 6)
        vo3  == Shr(BitAnd(48, u), 2) % 4
        con4 == BitAnd(15, u)
    IN  out \o <<UINT2CONSONANT[con0 + 1], UINT2VOWEL[vo1 + 1],
                 UINT2CONSONANT[con2 + 1], UINT2VOWEL[vo3 + 1],
                 UINT2CONSONANT[con4 + 1]>>

quint_to_ascii(u, out) ==
    LET con0 == Shr(BitAnd(61440, u), 12)   \* 0xf000
        vo1  == Shr(BitAnd(3072, u), 10)    \* 0x0c00
        con2 == Shr(BitAnd(960, u), 6)      \* 0x03c0
        vo3  == Shr(BitAnd(48, u), 4)       \* 0x0030
        con4 == BitAnd(15, u)               \* 0x000f
    IN  out \o <<UINT2CONSONANT[con0 + 1], UINT2VOWEL[vo1 + 1],
                 UINT2CONSONANT[con2 + 1], UINT2VOWEL[vo3 + 1],
                 UINT2CONSONANT[con4 + 1]>>

\* The debug_assert!s of quint_to_ascii: every index is within its table.
quint_indices_ok(u) ==
    /\ Shr(BitAnd(61440, u), 12) < Len(UINT2CONSONANT)
    /\ Shr(BitAnd(3072, u), 10) < Len(UINT2VOWEL)
    /\ Shr(BitAnd(960, u), 6) < Len(UINT2CONSONANT)
    /\ Shr(BitAnd(48, u), 4) < Len(UINT2VOWEL)
    /\ BitAnd(15, u) < Len(UINT2CONSONANT)

(***************************************************************************)
(* Proquint: the value of the model is the field inner.                    *)
(***************************************************************************)
RECURSIVE encode_all(_, _)
encode_all(ints, v) ==
    IF ints = <<>> THEN v
    ELSE encode_all(Tail(ints), quint_to_ascii(Head(ints), v))

from_vec(ints) == encode_all(ints, <<>>)

RECURSIVE from_slice_loop(_, _, _)
from_slice_loop(ints, i, v) ==
    IF i > Len(ints) THEN v
    ELSE from_slice_loop(ints, i + 1, quint_to_ascii(ints[i], v))

from_slice(ints) == from_slice_loop(ints, 1, <<>>)

from_iter(it) == encode_all(it, <<>>)

\* A faulty append: the new label is put in front.
append_in_front(inner, u) == quint_to_ascii(u, <<>>) \o inner

append(inner, u) == quint_to_ascii(u, inner)

(***************************************************************************)
(* ProquintError and Result.                                               *)
(***************************************************************************)
Ok == <<"Ok">>
InvalidLabelLength == <<"InvalidLabelLength">>
InvalidConsonant(c) == <<"InvalidConsonant", c>>
InvalidVowel(c) == <<"InvalidVowel", c>>

(***************************************************************************)
(* append_label: validates 5 characters and pushes them one by one.  The   *)
(* result is the Result returned and the value of self.inner it leaves,    *)
(* which holds the characters pushed before a rejected one.                *)
(***************************************************************************)
\* A faulty append_label: a rejected vowel is reported as a consonant.
append_label_wrong_kind(inner, label) ==
    IF Len(label) # 5 THEN [res |-> InvalidLabelLength, inner |-> inner]
    ELSE IF ~contains(UINT2CONSONANT, label[1])
    THEN [res |-> InvalidConsonant(label[1]), inner |-> inner]
    ELSE IF ~contains(UINT2VOWEL, label[2])
    THEN [res |-> InvalidConsonant(label[2]), inner |-> inner \o SubSeq(label, 1, 1)]
    ELSE IF ~contains(UINT2CONSONANT, label[3])
    THEN [res |-> InvalidConsonant(label[3]), inner |-> inner \o SubSeq(label, 1, 2)]
    ELSE IF ~contains(UINT2VOWEL, label[4])
    THEN [res |-> InvalidConsonant(label[4]), inner |-> inner \o SubSeq(label, 1, 3)]
    ELSE IF ~contains(UINT2CONSONANT, label[5])
    THEN [res |-> InvalidConsonant(label[5]), inner |-> inner \o SubSeq(label, 1, 4)]
    ELSE [res |-> Ok, inner |-> inner \o label]

append_label(inner, label) ==
    IF Len(label) # 5 THEN [res |-> InvalidLabelLength, inner |-> inner]
    ELSE IF ~contains(UINT2CONSONANT, label[1])
    THEN [res |-> InvalidConsonant(label[1]), inner |-> inner]
    ELSE IF ~contains(UINT2VOWEL, label[2])
    THEN [res |-> InvalidVowel(label[2]), inner |-> inner \o SubSeq(label, 1, 1)]
    ELSE IF ~contains(UINT2CONSONANT, label[3])
    THEN [res |-> InvalidConsonant(label[3]), inner |-> inner \o SubSeq(label, 1, 2)]
    ELSE IF ~contains(UINT2VOWEL, label[4])
    THEN [res |-> InvalidVowel(label[4]), inner |-> inner \o SubSeq(label, 1, 3)]
    ELSE IF ~contains(UINT2CONSONANT, label[5])
    THEN [res |-> InvalidConsonant(label[5]), inner |-> inner \o SubSeq(label, 1, 4)]
    ELSE [res |-> Ok, inner |-> inner \o label]

(***************************************************************************)
(* to_ints: one value per chunk of 5 characters.  panic records the        *)
(* "BUG: found invalid chars" panic, overflow that the u16 accumulator     *)
(* lost a bit in a shift or wrapped in an addition.                        *)
(***************************************************************************)
\* A faulty chunks: a shorter last piece is left out (chunks_exact).
chunks_exact(s, n) == [k \in 1..(Len(s) \div n) |-> SubSeq(s, n * (k - 1) + 1, n * k)]

\* slice.chunks(n): consecutive pieces of n elements, the last one shorter.
RECURSIVE chunks(_, _)
chunks(s, n) ==
    IF s = <<>> THEN <<>>
    ELSE IF Len(s) <= n THEN <<s>>
    ELSE <<SubSeq(s, 1, n)>> \o chunks(SubSeq(s, n + 1, Len(s)), n)

\* The inner loop of to_ints over the characters of one chunk.
RECURSIVE to_ints_label(_, _)
to_ints_label(label, acc) ==
    IF label = <<>> \/ acc.panic THEN acc
    ELSE LET c == Head(label)
         IN  IF contains(UINT2CONSONANT, c)
             THEN LET idx == position(UINT2CONSONANT, c)
                  IN  to_ints_label(Tail(label),
                        [val |-> (Shl16(acc.val, 4) + idx) % U16,
                         overflow |-> \/ acc.overflow
                                      \/ acc.val * 16 >= U16
                                      \/ Shl16(acc.val, 4) + idx >= U16,
                         panic |-> FALSE])
             ELSE IF contains(UINT2VOWEL, c)
             THEN LET idx == position(UINT2VOWEL, c)
                  IN  to_ints_label(Tail(label),
                        [val |-> (Shl16(acc.val, 2) + idx) % U16,
                         overflow |-> \/ acc.overflow
                                      \/ acc.val * 4 >= U16
                                      \/ Shl16(acc.val, 2) + idx >= U16,
                         panic |-> FALSE])
             ELSE [acc EXCEPT !.panic = TRUE]

RECURSIVE to_ints_loop(_, _)
to_ints_loop(labels, out) ==
    IF labels = <<>> \/ out.panic THEN out
    ELSE LET r == to_ints_label(Head(labels), [val |-> 0, overflow |-> FALSE, panic |-> FALSE])
         IN  IF r.panic THEN [out EXCEPT !.panic = TRUE]
             ELSE to_ints_loop(Tail(labels),
                    [v |-> Append(out.v, r.val),
                     overflow |-> out.overflow \/ r.overflow,
                     panic |-> FALSE])

to_ints(inner) ==
    to_ints_loop(chunks(inner, 5), [v |-> <<>>, overflow |-> FALSE, panic |-> FALSE])

(***************************************************************************)
(* FromStr for Proquint.                                                   *)
(***************************************************************************)
\* str.split('-'): the pieces between separators, empty pieces included.
RECURSIVE split(_, _)
split(s, cur) ==
    IF s = <<>> THEN <<cur>>
    ELSE IF Head(s) = "-" THEN <<cur>> \o split(Tail(s), <<>>)
    ELSE split(Tail(s), Append(cur, Head(s)))

\* The loop over the labels; checkLen is the length test of the '-' branch.
RECURSIVE from_str_loop(_, _, _)
from_str_loop(labels, checkLen, inner) ==
    IF labels = <<>> THEN [res |-> Ok, inner |-> inner]
    ELSE IF checkLen /\ Len(Head(labels)) # 5
    THEN [res |-> InvalidLabelLength, inner |-> inner]
    ELSE LET r == append_label(inner, Head(labels))
         IN  IF r.res # Ok THEN r
             ELSE from_str_loop(Tail(labels), checkLen, r.inner)

\* A faulty from_str: the text without separators is cut as if it had them.
from_str_chunks_of_six(s) ==
    LET r == IF contains(s, "-")
             THEN from_str_loop(split(s, <<>>), TRUE, <<>>)
             ELSE from_str_loop(chunks(s, 6), FALSE, <<>>)
    IN  IF r.res = Ok THEN [ok |-> TRUE, p |-> r.inner]
        ELSE [ok |-> FALSE, err |-> r.res]

\* A faulty from_str: the error of a label is ignored and p is returned.
from_str_error_ignored(s) ==
    LET r == IF contains(s, "-")
             THEN from_str_loop(split(s, <<>>), TRUE, <<>>)
             ELSE from_str_loop(chunks(s, 5), FALSE, <<>>)
    IN  [ok |-> TRUE, p |-> r.inner]

\* Ok(p) carries the identifier; Err(e) carries the error only, p is dropped.
from_str(s) ==
    LET r == IF contains(s, "-")
             THEN from_str_loop(split(s, <<>>), TRUE, <<>>)
             ELSE from_str_loop(chunks(s, 5), FALSE, <<>>)
    IN  IF r.res = Ok THEN [ok |-> TRUE, p |-> r.inner]
        ELSE [ok |-> FALSE, err |-> r.res]

(***************************************************************************)
(* Display for Proquint.                                                   *)
(***************************************************************************)
RECURSIVE fmt_loop(_, _, _)
fmt_loop(cs, first, fm) ==
    IF cs = <<>> THEN fm
    ELSE IF first THEN fmt_loop(Tail(cs), FALSE, fm \o Head(cs))
    ELSE fmt_loop(Tail(cs), FALSE, fm \o <<"-">> \o Head(cs))

\* A faulty Display: the separator is written before the first label too.
to_string_leading_sep(inner) == fmt_loop(chunks(inner, 5), FALSE, <<>>)

to_string(inner) == fmt_loop(chunks(inner, 5), TRUE, <<>>)

(***************************************************************************)
(* AsProquint.                                                             *)
(***************************************************************************)
into_proquint_u16(self, to) == append(to, self)

\* A faulty into_proquint for u32: the low word first.
into_proquint_u32_low_first(self, to) ==
    LET hi == AsU16(ShrBits(AndBits(self, Hex(<<15, 15, 15, 15, 0, 0, 0, 0>>)), 16))
        lo == AsU16(AndBits(self, Hex(<<0, 0, 0, 0, 15, 15, 15, 15>>)))
    IN  append(append(to, lo), hi)

into_proquint_u32(self, to) ==
    LET hi == AsU16(ShrBits(AndBits(self, Hex(<<15, 15, 15, 15, 0, 0, 0, 0>>)), 16))
        lo == AsU16(AndBits(self, Hex(<<0, 0, 0, 0, 15, 15, 15, 15>>)))
    IN  append(append(to, hi), lo)

into_proquint_u64(self, to) ==
    LET w0 == AsU16(ShrBits(AndBits(self,
                Hex(<<15, 15, 15, 15, 0, 0, 0, 0, 0, 0, 0, 0, 0, 0, 0, 0>>)), 48))
        w1 == AsU16(ShrBits(AndBits(self,
                Hex(<<0, 0, 0, 0, 15, 15, 15, 15, 0, 0, 0, 0, 0, 0, 0, 0>>)), 32))
        w2 == AsU16(ShrBits(AndBits(self,
                Hex(<<0, 0, 0, 0, 0, 0, 0, 0, 15, 15, 15, 15, 0, 0, 0, 0>>)), 16))
        w3 == AsU16(AndBits(self,
                Hex(<<0, 0, 0, 0, 0, 0, 0, 0, 0, 0, 0, 0, 15, 15, 15, 15>>)))
    IN  append(append(append(append(to, w0), w1), w2), w3)

\* self is the 4 octets of the address.
into_proquint_ipv4(self, to) ==
    append(append(to, BitOr(Shl16(self[1], 8), self[2])),
           BitOr(Shl16(self[3], 8), self[4]))

\* Vec<u16> and [u16]: every item in turn.
RECURSIVE into_proquint_vec(_, _)
into_proquint_vec(self, to) ==
    IF self = <<>> THEN to
    ELSE into_proquint_vec(Tail(self), into_proquint_u16(Head(self), to))

\* The default method of the trait, for each implementor.
as_proquint_u16(self) == into_proquint_u16(self, from_vec(<<>>))
as_proquint_u32(self) == into_proquint_u32(self, from_vec(<<>>))
as_proquint_u64(self) == into_proquint_u64(self, from_vec(<<>>))
as_proquint_ipv4(self) == into_proquint_ipv4(self, from_vec(<<>>))
as_proquint_vec(self) == into_proquint_vec(self, from_vec(<<>>))

(***************************************************************************)
(* The inputs the caller draws from.                                       *)
(***************************************************************************)
SeqsUpTo(S, n) == UNION {[1..k -> S] : k \in 0..n}

ValSeqs == SeqsUpTo(Vals, MaxLabels)

RECURSIVE Join(_, _)
Join(segs, sep) ==
    IF Len(segs) = 1 THEN segs[1]
    ELSE segs[1] \o sep \o Join(Tail(segs), sep)

JoinedTexts ==
    {Join(segs, sep) : segs \in SeqsUpTo(SampleSegs, MaxSegs) \ {<<>>},
                       sep \in {<<"-">>, <<>>}}

Texts == SeqsUpTo(Chars, MaxTextLen) \cup SeqsUpTo(WideChars, MaxWideLen) \cup JoinedTexts

Bits16(n) == [i \in 1..16 |-> (n \div (2 ^ (16 - i))) % 2]

U32Inputs == {Bits16(h) \o Bits16(l) : h \in Vals, l \in Vals}

U64Inputs == {Bits16(a) \o Bits16(b) \o Bits16(c) \o Bits16(d) :
                a \in {0, 65535}, b \in {0, 1}, c \in {0, 65535}, d \in Vals}

Ipv4Inputs == {p \o q : p \in OctetPairs, q \in OctetPairs}

\* 127.0.0.1, 63.84.220.193 and 216.35.68.215, which as_proquint encodes as well.
Ipv4Fixtures == {<<127, 0, 0, 1>>, <<63, 84, 220, 193>>, <<216, 35, 68, 215>>}

(***************************************************************************)
(* The state: one caller and the identifier it holds.                      *)
(*   origin  "new": the empty identifier of as_proquint, nothing done yet; *)
(*           "values": built from 16-bit values; "typed": the caller has   *)
(*           parsed a text of its own and holds the Result only;           *)
(*           "text": the caller has unwrapped a parsed identifier          *)
(*   inner   the field inner of the caller's Proquint                      *)
(*   words   the 16-bit words the caller has handed over so far            *)
(*   last    the last operation that changed inner, its argument, and      *)
(*           inner before it                                               *)
(*   text    the text last rendered ("display") or typed ("typed")         *)
(*   parsed  the Result of from_str on text                                *)
(*   parsed2 the Result of from_str on text with its separators removed    *)
(*   ints    the result of to_ints on the caller's identifier              *)
(*   pints   the result of to_ints on the identifier in parsed             *)
(***************************************************************************)
VARIABLES origin, inner, words, last, text, parsed, parsed2, ints, pints

vars == <<origin, inner, words, last, text, parsed, parsed2, ints, pints>>

None == [none |-> TRUE]
NoText == [src |-> "none", s |-> <<>>]

Init ==
    /\ origin = "new"
    /\ inner = from_vec(<<>>)
    /\ words = <<>>
    /\ last = [op |-> "new", arg |-> <<>>, prev |-> <<>>]
    /\ text = NoText
    /\ parsed = None
    /\ parsed2 = None
    /\ ints = None
    /\ pints = None

\* The caller's identifier becomes p by operation op on arg, which hands over ws.
Becomes(op, arg, p, ws) ==
    /\ origin' = IF origin = "text" THEN "text" ELSE "values"
    /\ inner' = p
    /\ words' = words \o ws
    /\ last' = [op |-> op, arg |-> arg, prev |-> inner]
    /\ text' = NoText
    /\ parsed' = None
    /\ parsed2' = None
    /\ ints' = None
    /\ pints' = None

Fresh == origin = "new" /\ text = NoText /\ ints = None
Held == origin \in {"new", "values", "text"}
Room(n) == Len(inner) + 5 * n <= 5 * MaxLabels

FromVec == Fresh /\ \E S \in ValSeqs : Becomes("from_vec", S, from_vec(S), S)

FromSlice == Fresh /\ \E S \in ValSeqs : Becomes("from_slice", S, from_slice(S), S)

FromIter == Fresh /\ \E S \in ValSeqs : Becomes("from_iter", S, from_iter(S), S)

AsProquintVec == Fresh /\ \E S \in ValSeqs : Becomes("vec", S, as_proquint_vec(S), S)

AppendU16 == Held /\ Room(1) /\ \E u \in Vals : Becomes("append", u, append(inner, u), <<u>>)

IntoProquintU16 ==
    Held /\ Room(1) /\ \E u \in Vals : Becomes("u16", u, into_proquint_u16(u, inner), <<u>>)

IntoProquintU32 ==
    /\ Held /\ Room(2)
    /\ \E b \in U32Inputs :
        Becomes("u32", b, into_proquint_u32(b, inner),
                   <<BitsVal(SubSeq(b, 1, 16)), BitsVal(SubSeq(b, 17, 32))>>)

IntoProquintU64 ==
    /\ Held /\ Room(4)
    /\ \E b \in U64Inputs :
        Becomes("u64", b, into_proquint_u64(b, inner),
                   <<BitsVal(SubSeq(b, 1, 16)), BitsVal(SubSeq(b, 17, 32)),
                     BitsVal(SubSeq(b, 33, 48)), BitsVal(SubSeq(b, 49, 64))>>)

IntoProquintIpv4 ==
    /\ Held /\ Room(2)
    /\ \E o \in IF Fresh THEN Ipv4Inputs \cup Ipv4Fixtures ELSE Ipv4Inputs :
        Becomes("ipv4", o, into_proquint_ipv4(o, inner),
                   <<o[1] * 256 + o[2], o[3] * 256 + o[4]>>)

\* Display: the caller renders its identifier.
ToString ==
    /\ Held /\ text = NoText
    /\ text' = [src |-> "display", s |-> to_string(inner)]
    /\ UNCHANGED <<origin, inner, words, last, parsed, parsed2, ints, pints>>

\* from_str on the rendered text.
FromStr ==
    /\ text.src = "display" /\ parsed = None
    /\ parsed' = from_str(text.s)
    /\ UNCHANGED <<origin, inner, words, last, text, parsed2, ints, pints>>

\* from_str on the rendered text with every separator left out.
FromStrNoSep ==
    /\ text.src = "display" /\ parsed2 = None
    /\ parsed2' = from_str(SelectSeq(text.s, LAMBDA c : c # "-"))
    /\ UNCHANGED <<origin, inner, words, last, text, parsed, ints, pints>>

\* from_str on a text of the caller's own.
FromStrTyped ==
    /\ Fresh
    /\ \E t \in Texts :
        /\ origin' = "typed"
        /\ text' = [src |-> "typed", s |-> t]
        /\ parsed' = from_str(t)
        /\ UNCHANGED <<inner, words, last, parsed2, ints, pints>>

\* unwrap(): the caller takes the parsed identifier as its own.
Unwrap ==
    /\ origin = "typed" /\ parsed # None /\ parsed.ok
    /\ origin' = "text"
    /\ inner' = parsed.p
    /\ last' = [op |-> "from_str", arg |-> text.s, prev |-> <<>>]
    /\ text' = NoText
    /\ parsed' = None
    /\ pints' = None
    /\ UNCHANGED <<words, parsed2, ints>>

ToInts ==
    /\ Held /\ ints = None
    /\ ints' = to_ints(inner)
    /\ UNCHANGED <<origin, inner, words, last, text, parsed, parsed2, pints>>

ParsedToInts ==
    /\ parsed # None /\ parsed.ok /\ pints = None
    /\ pints' = to_ints(parsed.p)
    /\ UNCHANGED <<origin, inner, words, last, text, parsed, parsed2, ints>>

Next ==
    \/ FromVec
    \/ FromSlice
    \/ FromIter
    \/ AsProquintVec
    \/ AppendU16
    \/ IntoProquintU16
    \/ IntoProquintU32
    \/ IntoProquintU64
    \/ IntoProquintIpv4
    \/ ToString
    \/ FromStr
    \/ FromStrNoSep
    \/ FromStrTyped
    \/ Unwrap
    \/ ToInts
    \/ ParsedToInts

Spec == Init /\ [][Next]_vars

(***************************************************************************)
(* The label codec over every 16-bit value: the caller encodes any u16,    *)
(* may append 0xffff as a second label, and decodes.                       *)
(***************************************************************************)
AsProquintAnyU16 ==
    Fresh /\ \E u \in 0..(U16 - 1) : Becomes("u16", u, as_proquint_u16(u), <<u>>)

AppendSecond ==
    /\ origin = "values" /\ Len(inner) = 5
    /\ Becomes("append", U16 - 1, append(inner, U16 - 1), <<U16 - 1>>)

NextLabel ==
    \/ AsProquintAnyU16
    \/ AppendSecond
    \/ ToInts

SpecLabel == Init /\ [][NextLabel]_vars

(***************************************************************************)
(* What the properties below speak of, stated without the operators above. *)
(***************************************************************************)
Consonants ==
    {"b", "d", "f", "g", "h", "j", "k", "l", "m", "n", "p", "r", "s", "t", "v", "z"}
Vowels == {"a", "i", "o", "u"}

\* A label position (1-based) holds a character of the alphabet it expects.
FitsAt(c, j) == IF j % 2 = 1 THEN c \in Consonants ELSE c \in Vowels

\* Whole labels only, consonants and vowels in their places, no separator.
WellFormed(p) ==
    /\ Len(p) % 5 = 0
    /\ \A i \in 1..Len(p) : FitsAt(p[i], ((i - 1) % 5) + 1)

\* The label segments of a text: the pieces between separators when it has
\* one, and its consecutive groups of 5 characters otherwise.
Cuts(t) == {0, Len(t) + 1} \cup {i \in 1..Len(t) : t[i] = "-"}
NthCut(t, k) == CHOOSE c \in Cuts(t) : Cardinality({d \in Cuts(t) : d < c}) = k - 1
Segments(t) ==
    IF \E i \in 1..Len(t) : t[i] = "-"
    THEN [k \in 1..(Cardinality(Cuts(t)) - 1) |->
            [j \in 1..(NthCut(t, k + 1) - NthCut(t, k) - 1) |-> t[NthCut(t, k) + j]]]
    ELSE [k \in 1..((Len(t) + 4) \div 5) |->
            [j \in 1..(IF 5 * k <= Len(t) THEN 5 ELSE Len(t) - 5 * (k - 1)) |->
                t[5 * (k - 1) + j]]]

\* The leftmost position of a segment whose character does not fit, or 0.
BadPos(seg) ==
    IF \A j \in 1..Len(seg) : FitsAt(seg[j], j) THEN 0
    ELSE CHOOSE j \in 1..Len(seg) :
            /\ ~FitsAt(seg[j], j)
            /\ \A i \in 1..(j - 1) : FitsAt(seg[i], i)

SegmentOk(seg) == Len(seg) = 5 /\ BadPos(seg) = 0

\* The first segment of a text that is no label, or 0.
FirstBad(t) ==
    LET segs == Segments(t)
    IN  IF \A k \in 1..Len(segs) : SegmentOk(segs[k]) THEN 0
        ELSE CHOOSE k \in 1..Len(segs) :
                /\ ~SegmentOk(segs[k])
                /\ \A i \in 1..(k - 1) : SegmentOk(segs[i])

\* The caller has parsed a text of its own.
TypedParsed == text.src = "typed" /\ parsed # None

Txt_babab == <<"b", "a", "b", "a", "b">>
Txt_babad == <<"b", "a", "b", "a", "d">>
Txt_zuzuz == <<"z", "u", "z", "u", "z">>
Txt_lusab == <<"l", "u", "s", "a", "b">>

(***************************************************************************)
(* C1.  Round trip through text: an identifier encoded from a non-empty    *)
(* sequence of 16-bit values, rendered, parsed back and decoded gives the  *)
(* sequence again, and the parsed identifier equals the encoded one.       *)
(***************************************************************************)
C1_RoundTrip ==
    (origin = "values" /\ words # <<>> /\ text.src = "display") =>
        /\ parsed # None => (parsed.ok /\ parsed.p = inner)
        /\ pints # None => (~pints.panic /\ pints.v = words)

C1_Witness ==
    /\ origin = "values" /\ last.op = "from_slice" /\ Len(words) >= 2
    /\ text.src = "display" /\ parsed # None /\ pints # None
    /\ pints.v = words

(***************************************************************************)
(* C2.  Decoding inverts encoding: to_ints of the identifier built from    *)
(* any 16-bit value v is [v], and of the identifier built from a sequence  *)
(* of values is that sequence, in length, order and values.                *)
(***************************************************************************)
C2_DecodeInvertsEncode ==
    (origin = "values" /\ ints # None) =>
        /\ ~ints.panic
        /\ ints.v = words
        /\ last.op = "u16" => ints.v = <<last.arg>>

C2_Witness ==
    /\ origin = "values" /\ ints # None
    /\ words = <<43981, 65535>> /\ ints.v = words

(***************************************************************************)
(* C3.  Encoding one 16-bit value v gives exactly the 5 characters         *)
(* C[v >> 12], V[(v >> 10) & 3], C[(v >> 6) & 15], V[(v >> 4) & 3],        *)
(* C[v & 15] of C = "bdfghjklmnprstvz" and V = "aiou", every index is      *)
(* within its table, and 0, 1 and 0xffff give babab, babad and zuzuz.      *)
(***************************************************************************)
C3_Consonants ==
    <<"b", "d", "f", "g", "h", "j", "k", "l", "m", "n", "p", "r", "s", "t", "v", "z">>
C3_Vowels == <<"a", "i", "o", "u">>

C3_EncodeU16 ==
    (last.op = "u16" /\ last.prev = <<>>) =>
        LET v == last.arg
        IN  /\ quint_indices_ok(v)
            /\ inner = <<C3_Consonants[(v \div 4096) + 1],
                         C3_Vowels[((v \div 1024) % 4) + 1],
                         C3_Consonants[((v \div 64) % 16) + 1],
                         C3_Vowels[((v \div 16) % 4) + 1],
                         C3_Consonants[(v % 16) + 1]>>
            /\ v = 0 => inner = Txt_babab
            /\ v = 1 => inner = Txt_babad
            /\ v = 65535 => inner = Txt_zuzuz

C3_Witness == last.op = "u16" /\ last.arg = 65535 /\ inner = Txt_zuzuz

(***************************************************************************)
(* C4.  Each width-specific encoder gives the labels of the value's 16-bit *)
(* words, most significant first: 2 for a u32, 4 for a u64, and            *)
(* o0*256+o1, o2*256+o3 for the IPv4 address o0.o1.o2.o3.  The u32 1       *)
(* renders as babab-babad and 127.0.0.1 as lusab-babad.                    *)
(***************************************************************************)
\* The k-th 16-bit word of a wide value, the most significant being the first.
WordOf(b, k) == BitsVal(SubSeq(b, 16 * k - 15, 16 * k))

C4_WideEncoders ==
    /\ last.op = "u32" =>
          inner = last.prev \o from_slice(<<WordOf(last.arg, 1), WordOf(last.arg, 2)>>)
    /\ last.op = "u64" =>
          inner = last.prev \o from_slice(<<WordOf(last.arg, 1), WordOf(last.arg, 2),
                                            WordOf(last.arg, 3), WordOf(last.arg, 4)>>)
    /\ last.op = "ipv4" =>
          inner = last.prev \o from_slice(<<last.arg[1] * 256 + last.arg[2],
                                            last.arg[3] * 256 + last.arg[4]>>)
    /\ (last.op = "u32" /\ last.prev = <<>> /\ text.src = "display"
          /\ WordOf(last.arg, 1) = 0 /\ WordOf(last.arg, 2) = 1) =>
          text.s = Txt_babab \o <<"-">> \o Txt_babad
    /\ (last.op = "ipv4" /\ last.prev = <<>> /\ text.src = "display"
          /\ last.arg = <<127, 0, 0, 1>>) =>
          text.s = Txt_lusab \o <<"-">> \o Txt_babad

C4_Witness ==
    /\ last.op = "u32" /\ last.prev = <<>>
    /\ WordOf(last.arg, 1) = 0 /\ WordOf(last.arg, 2) = 1
    /\ text.s = Txt_babab \o <<"-">> \o Txt_babad

(***************************************************************************)
(* C5.  When the first segment of a text that is no label has 5            *)
(* characters, parsing fails with the error of its leftmost character that *)
(* does not fit: InvalidConsonant(c) at positions 0, 2, 4 and              *)
(* InvalidVowel(c) at positions 1, 3, whatever follows it.  XXXXX fails    *)
(* with InvalidConsonant('X') and bbbbb with InvalidVowel('b').            *)
(***************************************************************************)
C5_CharacterErrors ==
    TypedParsed =>
        LET k == FirstBad(text.s)
            seg == Segments(text.s)[k]
            j == BadPos(seg)
        IN  /\ (k # 0 /\ Len(seg) = 5) =>
                  /\ ~parsed.ok
                  /\ parsed.err = IF j % 2 = 1 THEN InvalidConsonant(seg[j])
                                  ELSE InvalidVowel(seg[j])
            /\ text.s = <<"X", "X", "X", "X", "X">> =>
                  (~parsed.ok /\ parsed.err = InvalidConsonant("X"))
            /\ text.s = <<"b", "b", "b", "b", "b">> =>
                  (~parsed.ok /\ parsed.err = InvalidVowel("b"))

C5_Witness ==
    /\ TypedParsed
    /\ text.s = <<"b", "a", "b", "a", "b", "-", "b", "a", "b", "a", "X", "-", "b", "a", "b", "a">>
    /\ parsed.err = InvalidConsonant("X")

(***************************************************************************)
(* C6, as stated.  Parsing fails with InvalidLabelLength whenever any      *)
(* label segment of the text is not exactly 5 characters.                  *)
(***************************************************************************)
C6_AnyBadLength ==
    (TypedParsed /\ \E k \in 1..Len(Segments(text.s)) : Len(Segments(text.s)[k]) # 5) =>
        (~parsed.ok /\ parsed.err = InvalidLabelLength)

(***************************************************************************)
(* C6, amended.  Parsing fails whenever any label segment of the text is   *)
(* not exactly 5 characters, and with InvalidLabelLength when the first    *)
(* segment that is no label is one of the wrong length.                    *)
(***************************************************************************)
C6_FirstBadLength ==
    (TypedParsed /\ \E k \in 1..Len(Segments(text.s)) : Len(Segments(text.s)[k]) # 5) =>
        /\ ~parsed.ok
        /\ Len(Segments(text.s)[FirstBad(text.s)]) # 5 => parsed.err = InvalidLabelLength

C6_Witness ==
    /\ TypedParsed
    /\ text.s = <<"X", "X", "X">>
    /\ parsed.err = InvalidLabelLength

(***************************************************************************)
(* C7.  Delimiter-insensitivity: the rendered text of an identifier of 2   *)
(* or more labels and the same text with every separator left out both     *)
(* parse, to equal identifiers with equal values, and no separator is      *)
(* stored.                                                                 *)
(***************************************************************************)
C7_DelimiterInsensitive ==
    (text.src = "display" /\ Len(inner) >= 10 /\ WellFormed(inner)) =>
        /\ parsed # None => (parsed.ok /\ \A i \in 1..Len(parsed.p) : parsed.p[i] # "-")
        /\ parsed2 # None => (parsed2.ok /\ \A i \in 1..Len(parsed2.p) : parsed2.p[i] # "-")
        /\ (parsed # None /\ parsed2 # None) => parsed = parsed2
        /\ (pints # None /\ parsed2 # None) => to_ints(parsed2.p) = pints

C7_Witness ==
    /\ text.src = "display" /\ Len(inner) = 15
    /\ \E i \in 1..Len(text.s) : text.s[i] = "-"
    /\ parsed # None /\ parsed2 # None /\ pints # None
    /\ parsed.ok /\ parsed = parsed2

(***************************************************************************)
(* C8.  Every identifier that from_str returns holds at least one label:   *)
(* for every text, the empty one included, from_str returns an error or an *)
(* identifier whose to_ints has length 1 or more.                          *)
(***************************************************************************)
C8_ParsedNonEmpty ==
    (parsed # None /\ parsed.ok /\ pints # None) => Len(pints.v) >= 1

(***************************************************************************)
(* C9.  append extends an identifier, however it was built, by one label:  *)
(* its values are the values before followed by the new one and the labels *)
(* it held are unchanged.  Appends from the empty identifier give          *)
(* from_slice of the values appended, and from_vec, from_slice and         *)
(* from_iter agree.                                                        *)
(***************************************************************************)
C9_AppendExtends ==
    /\ last.op = "append" =>
          /\ Len(inner) = Len(last.prev) + 5
          /\ SubSeq(inner, 1, Len(last.prev)) = last.prev
          /\ to_ints(inner).v = Append(to_ints(last.prev).v, last.arg)
          /\ ints # None => ints.v = Append(to_ints(last.prev).v, last.arg)
    /\ origin = "values" => inner = from_slice(words)
    /\ last.op \in {"from_vec", "from_slice", "from_iter"} =>
          /\ inner = from_vec(last.arg)
          /\ inner = from_slice(last.arg)
          /\ inner = from_iter(last.arg)

C9_Witness ==
    /\ origin = "text" /\ last.op = "append" /\ last.prev = Txt_babab
    /\ ints # None /\ ints.v = <<0, last.arg>>

(***************************************************************************)
(* C10.  Every identifier a caller sees is well formed: whole labels,      *)
(* consonants at offsets 0, 2, 4 and vowels at 1, 3 of each, no separator; *)
(* a failed from_str hands over no identifier; to_ints never panics, never *)
(* overflows its accumulator and returns one value per label.              *)
(***************************************************************************)
C10_WellFormed ==
    /\ WellFormed(inner)
    /\ parsed # None =>
          IF parsed.ok THEN WellFormed(parsed.p) ELSE DOMAIN parsed = {"ok", "err"}
    /\ parsed2 # None =>
          IF parsed2.ok THEN WellFormed(parsed2.p) ELSE DOMAIN parsed2 = {"ok", "err"}
    /\ ints # None =>
          (~ints.panic /\ ~ints.overflow /\ 5 * Len(ints.v) = Len(inner))
    /\ pints # None =>
          (~pints.panic /\ ~pints.overflow /\ 5 * Len(pints.v) = Len(parsed.p))

C10_Witness ==
    /\ TypedParsed
    /\ text.s = <<"b", "a", "b", "a", "a">>
    /\ ~parsed.ok /\ parsed.err = InvalidConsonant("a")

====
